---- MODULE Spec2Model ----
(***************************************************************************)
(* Model of generate_telemetry.py: run_otelgen launches the otelgen binary *)
(* once per telemetry type, installs a SIGINT handler, waits for the       *)
(* children and terminates them in a final cleanup pass.                   *)
(*                                                                         *)
(* The supervisor is one thread of control; pc is its position in          *)
(* run_otelgen.  SIGINT is asynchronous: before line 50 has run Python's   *)
(* default handler raises KeyboardInterrupt at the interrupted point,      *)
(* afterwards signal_handler runs there and raises SystemExit(0), or the   *)
(* error of a failing terminate().                                         *)
(***************************************************************************)
EXTENDS Integers, Sequences, FiniteSets, TLC

\* ---------------------------------------------------------------- bounds
MaxInterrupts == 2

\* ------------------------------------------------------- program constants
None == "None"

\* status of an interpreter ended by an uncaught KeyboardInterrupt: CPython
\* restores the default disposition and re-raises SIGINT (128 + 2); in every
\* version the status is non-zero
KeyboardInterruptStatus == 130

\* the optional duration: <<>> is Python's None, <<d>> the integer d
NoDuration == <<>>

\* arguments of run_otelgen: the defaults of lines 8 and 73-78, the bounded
\* run of a collector, a multi-digit rate and a zero duration
Configs ==
  { [endpoint |-> "localhost:4317", rate |-> 5,  duration |-> NoDuration],
    [endpoint |-> "collector:4317", rate |-> 2,  duration |-> <<30>>],
    [endpoint |-> "localhost:4317", rate |-> 12, duration |-> <<1>>],
    [endpoint |-> "collector:4317", rate |-> 5,  duration |-> <<0>>] }

\* telemetry_commands, in insertion order
Workloads == <<"traces", "metrics", "logs">>
WorkloadSet == {Workloads[n] : n \in 1..Len(Workloads)}

telemetry_commands ==
  [t \in WorkloadSet |->
     CASE t = "traces"  -> <<"traces", "multi">>
       [] t = "metrics" -> <<"metrics", "sum">>
       [] t = "logs"    -> <<"logs", "multi">>]

\* ------------------------------------------------------------ pure helpers
Digit == <<"0", "1", "2", "3", "4", "5", "6", "7", "8", "9">>

RECURSIVE Str(_)
\* str(n) of a Python int: decimal digits, leading minus sign
Str(n) ==
  IF n < 0 THEN "-" \o Str(0 - n)
  ELSE IF n < 10 THEN Digit[n + 1]
  ELSE Str(n \div 10) \o Digit[(n % 10) + 1]

RECURSIVE Join(_)
\* ' '.join(cmd)
Join(s) ==
  IF Len(s) = 0 THEN ""
  ELSE IF Len(s) = 1 THEN s[1]
  ELSE s[1] \o " " \o Join(Tail(s))

\* Python truthiness of the duration argument: None and 0 are false
Truthy(d) == d # NoDuration /\ d[1] # 0

\* base_cmd after the optional extend (lines 17-26)
base_cmd(endpoint, rate, duration) ==
  LET base == <<"otelgen",
                "--otel-exporter-otlp-endpoint", endpoint,
                "--rate", Str(rate),
                "--service-name", "locol-test-generator",
                "--insecure">>
  IN IF Truthy(duration) THEN base \o <<"--duration", Str(duration[1])>>
     ELSE base

\* mutant: only the first workload is given the duration
Cmd_DurationFirstOnly(cfg, t) ==
  base_cmd(cfg.endpoint, cfg.rate,
           IF t = Workloads[1] THEN cfg.duration ELSE NoDuration)
    \o telemetry_commands[t]

\* cmd = base_cmd + cmd_args (line 39)
Cmd(cfg, t) == base_cmd(cfg.endpoint, cfg.rate, cfg.duration) \o telemetry_commands[t]

\* ------------------------------------------------------------------ state
VARIABLES
  config,            \* endpoint, rate, duration passed to run_otelgen
  pc,                \* position of the supervisor in run_otelgen
  i,                 \* index of the launch loop (line 38)
  wi,                \* index of the wait loop (line 53)
  ci,                \* index of the cleanup loop (line 65)
  processes,         \* the list of child handles (line 36)
  process,           \* local of line 41: spawned, not yet appended
  child,             \* state of each child process
  cmds,              \* argv each child was spawned with
  launchCount,       \* number of Popen calls per workload
  launchError,       \* exception raised by a Popen call, if any
  cleanupFailed,     \* handles whose terminate() raised in the cleanup pass
  handlerInstalled,  \* signal.signal has run (line 50)
  pending,           \* exception in flight while the finally block runs
  exitStatus,        \* exit status of the supervisor, -1 while running
  stdout,            \* messages printed by run_otelgen
  handlerTerm,       \* terminate() calls issued by signal_handler, per handle
  cleanupTerm,       \* terminate() calls issued by the cleanup pass, per handle
  handlerRuns,       \* number of times signal_handler ran
  intAt,             \* where each delivered SIGINT found the supervisor
  log                \* launch / wait events in program order

vars == <<config, pc, i, wi, ci, processes, process, child, cmds, launchCount,
          launchError, cleanupFailed, handlerInstalled, pending, exitStatus, stdout,
          handlerTerm, cleanupTerm, handlerRuns, intAt, log>>

N == Len(Workloads)

Init ==
  /\ config \in Configs
  /\ pc = "launch"
  /\ i = 1
  /\ wi = 1
  /\ ci = 1
  /\ processes = <<>>
  /\ process = None
  /\ child = [t \in WorkloadSet |-> "none"]
  /\ cmds = [t \in WorkloadSet |-> <<>>]
  /\ launchCount = [t \in WorkloadSet |-> 0]
  /\ launchError = None
  /\ cleanupFailed = {}
  /\ handlerInstalled = FALSE
  /\ pending = None
  /\ exitStatus = -1
  /\ stdout = <<>>
  /\ handlerTerm = [t \in WorkloadSet |-> 0]
  /\ cleanupTerm = [t \in WorkloadSet |-> 0]
  /\ handlerRuns = 0
  /\ intAt = <<>>
  /\ log = <<>>

\* -------------------------------------------------------- launch phase
PopenOutcomes == {"ok", "FileNotFoundError", "OSError"}

\* lines 38-41: next item of telemetry_commands, build cmd, print, Popen
Launch ==
  /\ pc = "launch"
  /\ i <= N
  /\ LET t == Workloads[i]
         cmd == Cmd(config, t)
     IN /\ stdout' = Append(stdout, "Starting " \o t \o " generator: " \o Join(cmd))
        /\ launchCount' = [launchCount EXCEPT ![t] = @ + 1]
        /\ \E outcome \in PopenOutcomes :
             IF outcome = "ok"
             THEN /\ child' = [child EXCEPT ![t] = "running"]
                  /\ cmds' = [cmds EXCEPT ![t] = cmd]
                  /\ process' = t
                  /\ log' = Append(log, <<"launch", t>>)
                  /\ pc' = "append"
                  /\ UNCHANGED <<launchError, pending>>
             ELSE /\ launchError' = outcome
                  /\ pending' = outcome
                  /\ pc' = IF outcome = "FileNotFoundError"
                           THEN "except_fnf" ELSE "except_other"
                  /\ UNCHANGED <<child, cmds, process, log>>
  /\ UNCHANGED <<config, i, wi, ci, processes, cleanupFailed, handlerInstalled,
                 exitStatus, handlerTerm, cleanupTerm, handlerRuns, intAt>>

\* mutant: the loop stops one item short
LaunchLoopDone_OffByOne(n) == n > N - 1

\* line 38: the for loop ends when telemetry_commands is exhausted
LaunchLoopDone(n) == n > N

\* mutant: the new handle is put at the front of the list
AppendHandle_Prepend ==
  /\ pc = "append"
  /\ processes' = <<process>> \o processes
  /\ process' = None
  /\ i' = i + 1
  /\ pc' = IF LaunchLoopDone(i + 1) THEN "install" ELSE "launch"
  /\ UNCHANGED <<config, wi, ci, child, cmds, launchCount, launchError,
                 cleanupFailed, handlerInstalled, pending, exitStatus, stdout,
                 handlerTerm, cleanupTerm, handlerRuns, intAt, log>>

\* line 42: processes.append(process), then the loop header of line 38
AppendHandle ==
  /\ pc = "append"
  /\ processes' = Append(processes, process)
  /\ process' = None
  /\ i' = i + 1
  /\ pc' = IF LaunchLoopDone(i + 1) THEN "install" ELSE "launch"
  /\ UNCHANGED <<config, wi, ci, child, cmds, launchCount, launchError,
                 cleanupFailed, handlerInstalled, pending, exitStatus, stdout,
                 handlerTerm, cleanupTerm, handlerRuns, intAt, log>>

\* line 50: signal.signal(signal.SIGINT, signal_handler)
InstallHandler ==
  /\ pc = "install"
  /\ handlerInstalled' = TRUE
  /\ pc' = "wait"
  /\ UNCHANGED <<config, i, wi, ci, processes, process, child, cmds,
                 launchCount, launchError, cleanupFailed, pending, exitStatus,
                 stdout, handlerTerm, cleanupTerm, handlerRuns, intAt, log>>

\* ---------------------------------------------------------- wait phase
Exited == {"exit0", "exit1"}

\* mutant: the list is waited on back to front
WaitTarget_Reversed == processes[Len(processes) + 1 - wi]

\* line 53: the handle the wait loop is at
WaitTarget == processes[wi]

\* mutant: the wait returns only for a child that exited successfully
WaitSatisfied_OnlySuccess == child[WaitTarget] = "exit0"

\* mutant: a poll instead of a wait, returning while the child still runs
WaitSatisfied_Poll == TRUE

\* line 54: p.wait() blocks until the child has exited
WaitSatisfied == child[WaitTarget] \in Exited

\* lines 53-54: next handle of the list, call p.wait()
WaitBegin ==
  /\ pc = "wait"
  /\ wi <= Len(processes)
  /\ log' = Append(log, <<"wait_begin", WaitTarget>>)
  /\ pc' = "waiting"
  /\ UNCHANGED <<config, i, wi, ci, processes, process, child, cmds,
                 launchCount, launchError, cleanupFailed, handlerInstalled,
                 pending, exitStatus, stdout, handlerTerm, cleanupTerm,
                 handlerRuns, intAt>>

\* mutant: a child that exited with a failure status raises in the wait
WaitReturn_CheckStatus ==
  /\ pc = "waiting"
  /\ WaitSatisfied
  /\ log' = Append(log, <<"wait_return", WaitTarget>>)
  /\ wi' = wi + 1
  /\ IF child[WaitTarget] = "exit1"
     THEN pc' = "except_other" /\ pending' = "OSError"
     ELSE pc' = "wait" /\ pending' = pending
  /\ UNCHANGED <<config, i, ci, processes, process, child, cmds, launchCount,
                 launchError, cleanupFailed, handlerInstalled,
                 exitStatus, stdout, handlerTerm, cleanupTerm, handlerRuns,
                 intAt>>

\* line 54: p.wait() returns once the child has exited
WaitReturn ==
  /\ pc = "waiting"
  /\ WaitSatisfied
  /\ log' = Append(log, <<"wait_return", WaitTarget>>)
  /\ wi' = wi + 1
  /\ pc' = "wait"
  /\ UNCHANGED <<config, i, ci, processes, process, child, cmds, launchCount,
                 launchError, cleanupFailed, handlerInstalled, pending,
                 exitStatus, stdout, handlerTerm, cleanupTerm, handlerRuns,
                 intAt>>

\* line 53: the list is exhausted, the try body ends and the finally runs
WaitDone ==
  /\ pc = "wait"
  /\ wi > Len(processes)
  /\ pc' = "cleanup"
  /\ ci' = 1
  /\ UNCHANGED <<config, i, wi, processes, process, child, cmds, launchCount,
                 launchError, cleanupFailed, handlerInstalled, pending,
                 exitStatus, stdout, handlerTerm, cleanupTerm, handlerRuns,
                 intAt, log>>

\* ------------------------------------------------------ except clauses
\* mutant: the missing binary is reported but the exit status is 0
ExceptFileNotFound_ExitZero ==
  /\ pc = "except_fnf"
  /\ stdout' = stdout \o <<"Error: otelgen not found. Please install it with:",
                           "go install github.com/krzko/otelgen@latest">>
  /\ pending' = "SystemExit0"
  /\ pc' = "cleanup"
  /\ ci' = 1
  /\ UNCHANGED <<config, i, wi, processes, process, child, cmds, launchCount,
                 launchError, cleanupFailed, handlerInstalled, exitStatus,
                 handlerTerm, cleanupTerm, handlerRuns, intAt, log>>

\* lines 56-59: except FileNotFoundError
ExceptFileNotFound ==
  /\ pc = "except_fnf"
  /\ stdout' = stdout \o <<"Error: otelgen not found. Please install it with:",
                           "go install github.com/krzko/otelgen@latest">>
  /\ pending' = "SystemExit1"
  /\ pc' = "cleanup"
  /\ ci' = 1
  /\ UNCHANGED <<config, i, wi, processes, process, child, cmds, launchCount,
                 launchError, cleanupFailed, handlerInstalled, exitStatus,
                 handlerTerm, cleanupTerm, handlerRuns, intAt, log>>

\* lines 60-62: except Exception as e
ExceptOther ==
  /\ pc = "except_other"
  /\ stdout' = Append(stdout, "Error running otelgen: " \o pending)
  /\ pending' = "SystemExit1"
  /\ pc' = "cleanup"
  /\ ci' = 1
  /\ UNCHANGED <<config, i, wi, processes, process, child, cmds, launchCount,
                 launchError, cleanupFailed, handlerInstalled, exitStatus,
                 handlerTerm, cleanupTerm, handlerRuns, intAt, log>>

\* -------------------------------------------------------- cleanup pass
\* exit status the interpreter gives for the exception that leaves run_otelgen;
\* with none, run_otelgen and main return (lines 89-92)
StatusOf(e) ==
  CASE e = None                -> 0
    [] e = "SystemExit0"       -> 0
    [] e = "SystemExit1"       -> 1
    [] e = "KeyboardInterrupt" -> KeyboardInterruptStatus
    [] OTHER                   -> 1

\* lines 65-66: next handle of the list, enter the try
CleanupEnter ==
  /\ pc = "cleanup"
  /\ ci <= Len(processes)
  /\ pc' = "cleanup_try"
  /\ UNCHANGED <<config, i, wi, ci, processes, process, child, cmds,
                 launchCount, launchError, cleanupFailed, handlerInstalled,
                 pending, exitStatus, stdout, handlerTerm, cleanupTerm,
                 handlerRuns, intAt, log>>

\* mutant: the cleanup waits for the child it has just terminated
CleanupTerminate_ThenWait ==
  /\ pc = "cleanup_try"
  /\ child[processes[ci]] \in Exited
  /\ cleanupTerm' = [cleanupTerm EXCEPT ![processes[ci]] = @ + 1]
  /\ \E raised \in BOOLEAN :
       cleanupFailed' = IF raised THEN cleanupFailed \cup {processes[ci]}
                        ELSE cleanupFailed
  /\ ci' = ci + 1
  /\ pc' = "cleanup"
  /\ UNCHANGED <<config, i, wi, processes, process, child, cmds, launchCount,
                 launchError, handlerInstalled, pending, exitStatus, stdout,
                 handlerTerm, handlerRuns, intAt, log>>

\* lines 67-69: p.terminate(); whatever it raises is swallowed
CleanupTerminate ==
  /\ pc = "cleanup_try"
  /\ cleanupTerm' = [cleanupTerm EXCEPT ![processes[ci]] = @ + 1]
  /\ \E raised \in BOOLEAN :
       cleanupFailed' = IF raised THEN cleanupFailed \cup {processes[ci]}
                        ELSE cleanupFailed
  /\ ci' = ci + 1
  /\ pc' = "cleanup"
  /\ UNCHANGED <<config, i, wi, processes, process, child, cmds, launchCount,
                 launchError, handlerInstalled, pending, exitStatus, stdout,
                 handlerTerm, handlerRuns, intAt, log>>

\* end of the finally block: the exception in flight, if any, leaves
\* run_otelgen and the interpreter exits
CleanupExit ==
  /\ pc = "cleanup"
  /\ ci > Len(processes)
  /\ pc' = "exited"
  /\ exitStatus' = StatusOf(pending)
  /\ UNCHANGED <<config, i, wi, ci, processes, process, child, cmds,
                 launchCount, launchError, cleanupFailed, handlerInstalled,
                 pending, stdout, handlerTerm, cleanupTerm, handlerRuns,
                 intAt, log>>

\* ------------------------------------------------------------- SIGINT
InTryBody == {"launch", "append", "install", "wait", "waiting"}
InExceptClause == {"except_fnf", "except_other"}

\* the exception e is raised at the supervisor's current position.
\*   try body (lines 38-54): except Exception catches an ordinary error,
\*     SystemExit and KeyboardInterrupt go straight to the finally;
\*   except clause (lines 57-62): e replaces the handled error, finally runs;
\*   cleanup loop header (line 65): e leaves the finally, the loop is abandoned;
\*   inside the try of line 66: the bare except swallows e; the terminate()
\*     it interrupted had sent its signal (done) or not.
RaiseAt(e, done) ==
  CASE pc \in InTryBody ->
         /\ pending' = e
         /\ pc' = IF e = "OSError" THEN "except_other" ELSE "cleanup"
         /\ ci' = 1
         /\ UNCHANGED <<exitStatus, cleanupTerm>>
    [] pc \in InExceptClause ->
         /\ pending' = e
         /\ pc' = "cleanup"
         /\ ci' = 1
         /\ UNCHANGED <<exitStatus, cleanupTerm>>
    [] pc = "cleanup" ->
         /\ pending' = e
         /\ pc' = "exited"
         /\ exitStatus' = StatusOf(e)
         /\ UNCHANGED <<ci, cleanupTerm>>
    [] pc = "cleanup_try" ->
         /\ pc' = "cleanup"
         /\ ci' = ci + 1
         /\ cleanupTerm' = IF done
                           THEN [cleanupTerm EXCEPT ![processes[ci]] = @ + 1]
                           ELSE cleanupTerm
         /\ UNCHANGED <<pending, exitStatus>>

\* handles signal_handler calls terminate() on when the f-th call raises
\* (f = 0: no call raises and the loop of lines 46-47 covers the list)
HandlerReach(f) ==
  {processes[n] : n \in 1..(IF f = 0 THEN Len(processes) ELSE f)}

\* lines 44-48: print, terminate every handle of the list, sys.exit(0);
\* a terminate() that raises ends the handler with that error instead
signal_handler(f, done) ==
  /\ stdout' = Append(stdout, "\nStopping telemetry generation...")
  /\ handlerTerm' = [t \in WorkloadSet |->
                       IF t \in HandlerReach(f) THEN handlerTerm[t] + 1
                       ELSE handlerTerm[t]]
  /\ handlerRuns' = handlerRuns + 1
  /\ RaiseAt(IF f = 0 THEN "SystemExit0" ELSE "OSError", done)

\* Python's default SIGINT handler, in force until line 50 has run
default_int_handler(done) ==
  /\ RaiseAt("KeyboardInterrupt", done)
  /\ UNCHANGED <<stdout, handlerTerm, handlerRuns>>

\* SIGINT is delivered to the supervisor
Interrupt ==
  /\ pc # "exited"
  /\ Len(intAt) < MaxInterrupts
  /\ intAt' = Append(intAt, [at |-> pc, installed |-> handlerInstalled,
                             launched |-> Cardinality({t \in WorkloadSet : child[t] # "none"})])
  /\ \E done \in BOOLEAN :
       /\ (pc # "cleanup_try") => ~done
       /\ IF handlerInstalled
          THEN \E f \in 0..Len(processes) : signal_handler(f, done)
          ELSE default_int_handler(done)
  /\ UNCHANGED <<config, i, wi, processes, process, child, cmds, launchCount,
                 launchError, cleanupFailed, handlerInstalled, log>>

\* ------------------------------------------------------------ children
\* a running child exits, on its own or after a signal, with either status
ChildExit(t) ==
  /\ child[t] = "running"
  /\ \E st \in Exited : child' = [child EXCEPT ![t] = st]
  /\ UNCHANGED <<config, pc, i, wi, ci, processes, process, cmds, launchCount,
                 launchError, cleanupFailed, handlerInstalled, pending,
                 exitStatus, stdout, handlerTerm, cleanupTerm, handlerRuns,
                 intAt, log>>

\* the supervisor's own steps
Supervisor ==
  \/ Launch
  \/ AppendHandle
  \/ InstallHandler
  \/ WaitBegin
  \/ WaitReturn
  \/ WaitDone
  \/ ExceptFileNotFound
  \/ ExceptOther
  \/ CleanupEnter
  \/ CleanupTerminate
  \/ CleanupExit

Next ==
  \/ Launch
  \/ AppendHandle
  \/ InstallHandler
  \/ WaitBegin
  \/ WaitReturn
  \/ WaitDone
  \/ ExceptFileNotFound
  \/ ExceptOther
  \/ CleanupEnter
  \/ CleanupTerminate
  \/ CleanupExit
  \/ Interrupt
  \/ \E t \in WorkloadSet : ChildExit(t)

Spec == Init /\ [][Next]_vars

\* fairness: the interpreter keeps executing the supervisor while it can step
LiveSpec == Spec /\ WF_vars(Supervisor)

\* run_otelgen called with the defaults of line 8; the arguments only reach
\* the argv and the messages, never the control flow
InitDefault ==
  /\ Init
  /\ config = [endpoint |-> "localhost:4317", rate |-> 5, duration |-> NoDuration]

LiveSpecDefault == InitDefault /\ [][Next]_vars /\ WF_vars(Supervisor)

\* ============================================================ properties
Handles == {processes[n] : n \in 1..Len(processes)}
Spawned == {t \in WorkloadSet : child[t] # "none"}
TermCalls(t) == handlerTerm[t] + cleanupTerm[t]
Interrupted == Len(intAt) > 0
IntPositions == {intAt[n].at : n \in 1..Len(intAt)}
Remediation == "go install github.com/krzko/otelgen@latest"
Printed(m) == \E n \in 1..Len(stdout) : stdout[n] = m

\* C1 (as claimed): once a SIGINT has been delivered after the three children
\* were launched, the supervisor's exit finds a termination request issued on
\* every recorded handle and the exit status is 0.
C1_InterruptAfterLaunchExitsZero ==
  (pc = "exited" /\ \E n \in 1..Len(intAt) : intAt[n].launched = N)
    => (exitStatus = 0 /\ \A t \in Handles : TermCalls(t) >= 1)

\* C2 (as claimed): a run in which a SIGINT was delivered, in whatever phase
\* of run_otelgen, ends with exit status 0.
C2_InterruptNeverAnError ==
  (pc = "exited" /\ Interrupted) => exitStatus = 0

\* exit decided by SIGINTs that were not swallowed by the bare except of
\* line 68: a SIGINT found inside the try of lines 66-67 leaves no trace
UnswallowedInterrupt == IntPositions \ {"cleanup_try"} # {}

\* no launch was attempted after the failing one, and none twice
NoLaunchAfterFailure ==
  /\ \A n \in 1..N : launchCount[Workloads[n]] = (IF n <= i THEN 1 ELSE 0)
  /\ pc \notin InTryBody

C4_FailedLaunchAbortsAndCleansUp ==
  (launchError # None) =>
    /\ NoLaunchAfterFailure
    /\ pc = "exited" =>
         /\ exitStatus # 0
         /\ \A t \in Spawned : cleanupTerm[t] >= 1

\* the wait phase was entered: line 50 has run
WaitPhaseBegan == handlerInstalled

\* C5 (as claimed): when the supervisor exits after the wait phase had begun,
\* the cleanup pass has issued a terminate() on every recorded handle, and the
\* terminate() calls that raised in the pass left the exit status what the
\* exception in flight made it.
C5_CleanupCoversEveryHandle ==
  (pc = "exited" /\ WaitPhaseBegan) =>
    /\ \A t \in Handles : cleanupTerm[t] >= 1
    /\ exitStatus = StatusOf(pending)

\* C6: in every state, for every configuration, the handle list is a prefix of
\* traces, metrics, logs (at most one handle per workload, in that order), no
\* workload has been launched twice, and once the wait phase has begun the
\* list holds exactly the three and every workload was launched once.
C6_OneChildPerWorkload ==
  /\ Len(processes) <= N
  /\ \A n \in 1..Len(processes) : processes[n] = Workloads[n]
  /\ \A t \in WorkloadSet : launchCount[t] <= 1
  /\ Spawned \subseteq Handles \cup {process}
  /\ WaitPhaseBegan =>
       /\ processes = Workloads
       /\ \A t \in WorkloadSet : launchCount[t] = 1 /\ t \in Spawned

\* C6 witness: the supervisor has exited after a wait phase in which the first
\* child failed and one was terminated on interrupt; none was launched again
C6_Witness ==
  /\ pc = "exited"
  /\ WaitPhaseBegan
  /\ child["traces"] = "exit1"
  /\ handlerTerm["logs"] >= 1
  /\ processes = Workloads
  /\ \A t \in WorkloadSet : launchCount[t] = 1

AllLaunched == processes = Workloads

\* C7: if every child eventually exits, then from the point where all three
\* have been launched the supervisor eventually exits with status 0, unless a
\* SIGINT is delivered.
C7_NaturalCompletionExitsZero ==
  (\A t \in WorkloadSet : []<>(child[t] # "running"))
    => ((AllLaunched /\ pc = "install")
          ~> ((pc = "exited" /\ exitStatus = 0) \/ Interrupted))

\* C7 witness: all three launched, all exited, no SIGINT, wait phase and
\* cleanup pass completed, exit status 0
C7_Witness ==
  /\ pc = "exited"
  /\ exitStatus = 0
  /\ ~Interrupted
  /\ wi = N + 1
  /\ \A t \in WorkloadSet : child[t] \in Exited /\ cleanupTerm[t] = 1

Mentions(cmd, tok) == \E k \in 1..Len(cmd) : cmd[k] = tok
Occurrences(cmd, tok) == Cardinality({k \in 1..Len(cmd) : cmd[k] = tok})
HasPair(cmd, flag, val) ==
  \E k \in 1..(Len(cmd) - 1) : cmd[k] = flag /\ cmd[k + 1] = val
WithoutSubcommand(cmd) == SubSeq(cmd, 1, Len(cmd) - 2)
Subcommand(cmd) == SubSeq(cmd, Len(cmd) - 1, Len(cmd))

\* C8: the argv of every spawned child has no --duration when the duration is
\* absent, has exactly one --duration followed by the decimal duration when it
\* is a positive integer, carries the configured endpoint and rate, and equals
\* the argv of every other child up to its two trailing sub-command words.
C8_DurationArgument ==
  \A t \in Spawned :
    LET cmd == cmds[t] IN
    /\ config.duration = NoDuration => ~Mentions(cmd, "--duration")
    /\ (config.duration # NoDuration /\ config.duration[1] > 0) =>
         /\ Occurrences(cmd, "--duration") = 1
         /\ HasPair(cmd, "--duration", Str(config.duration[1]))
    /\ HasPair(cmd, "--otel-exporter-otlp-endpoint", config.endpoint)
    /\ HasPair(cmd, "--rate", Str(config.rate))
    /\ Subcommand(cmd) = telemetry_commands[t]
    /\ \A u \in Spawned : WithoutSubcommand(cmds[u]) = WithoutSubcommand(cmd)

\* C8 witness: rate 2, duration 30 to collector:4317; the three children were
\* spawned and the second one's argv is the expected literal
C8_Witness ==
  /\ Spawned = WorkloadSet
  /\ config.duration = <<30>>
  /\ cmds["metrics"] = <<"otelgen", "--otel-exporter-otlp-endpoint",
                         "collector:4317", "--rate", "2", "--service-name",
                         "locol-test-generator", "--insecure",
                         "--duration", "30", "metrics", "sum">>

\* launches in dictionary order, then wait_begin / wait_return per handle
ExpectedLog ==
  [n \in 1..(3 * N) |->
     IF n <= N THEN <<"launch", Workloads[n]>>
     ELSE IF (n - N) % 2 = 1
          THEN <<"wait_begin", Workloads[(n - N + 1) \div 2]>>
          ELSE <<"wait_return", Workloads[(n - N) \div 2]>>]

\* C9: the launch and wait events of a run are a prefix of: launch traces,
\* metrics, logs, then for traces, metrics, logs in turn the start of its wait
\* followed by the return of its wait.
C9_LaunchThenWaitInOrder ==
  /\ Len(log) <= 3 * N
  /\ \A n \in 1..Len(log) : log[n] = ExpectedLog[n]

\* C9 witness: the three launches and the three waits have all happened and
\* the wait loop is at its end
C9_Witness ==
  /\ Len(log) = 3 * N
  /\ pc = "wait"
  /\ wi = N + 1

\* C10: with no SIGINT delivered and no launch error, every child whose wait
\* has returned had exited, the supervisor is past the wait phase only when
\* all three children have exited, and its exit status is then 0.
C10_NoExitWhileChildRunning ==
  (~Interrupted /\ launchError = None) =>
    /\ \A n \in 1..Len(processes) : n < wi => child[processes[n]] \in Exited
    /\ pc \in {"cleanup", "cleanup_try", "exited"} =>
         /\ Spawned = WorkloadSet
         /\ \A t \in WorkloadSet : child[t] \in Exited
    /\ pc = "exited" => exitStatus = 0

\* C10 witness: the supervisor is blocked in the wait on the first child,
\* which still runs, while the other two have already exited
C10_Witness ==
  /\ pc = "waiting"
  /\ wi = 1
  /\ ~Interrupted
  /\ child["traces"] = "running"
  /\ child["metrics"] \in Exited
  /\ child["logs"] \in Exited

\* a SIGINT found the supervisor in the wait loop of lines 53-54
InterruptedInWait ==
  \E n \in 1..Len(intAt) : intAt[n].at \in {"wait", "waiting"}

\* C11: once a SIGINT has been delivered during the wait phase the supervisor
\* eventually exits, whether or not any child ever exits: no fairness is
\* assumed of the children, so a wait on a child that keeps running would
\* refute it.
C11_InterruptDoesNotWaitForChildren ==
  InterruptedInWait ~> (pc = "exited")

\* C11 witness: the supervisor has exited after a SIGINT in the wait phase,
\* signal_handler has issued terminate() on the three handles and all three
\* children are still running
C11_Witness ==
  /\ pc = "exited"
  /\ InterruptedInWait
  /\ \A t \in WorkloadSet : child[t] = "running" /\ handlerTerm[t] >= 1

\* C12 (as claimed): in any run, however many SIGINTs are delivered and
\* wherever, signal_handler's termination cascade runs at most once.
C12_CascadeAtMostOnce == handlerRuns <= 1

\* C13: every step either leaves the handle list unchanged or is the append of
\* line 42, taken in the launch phase before the handler is installed, which
\* adds the handle of the child just spawned at the end of the list; the list
\* then holds one handle per spawned child.
C13_ListOnlyGrowsByAppend ==
  [][ \/ processes' = processes
      \/ /\ pc = "append"
         /\ ~WaitPhaseBegan
         /\ child[process] # "none"
         /\ processes' = Append(processes, process)
         /\ Len(processes') = Cardinality(Spawned') ]_vars

\* C13 witness: the list still holds the three handles in launch order after
\* a wait returned, signal_handler ran and the cleanup pass terminated a handle
C13_Witness ==
  /\ pc = "exited"
  /\ processes = Workloads
  /\ wi >= 2
  /\ handlerRuns >= 1
  /\ cleanupTerm["traces"] >= 1

\* C14 (as claimed): when the supervisor has exited, every child that was
\* spawned has exited or has had a terminate() issued on its handle, by
\* signal_handler or by the cleanup pass.
C14_NoSpawnedChildLeftUnsignalled ==
  pc = "exited" =>
    \A t \in Spawned : child[t] \in Exited \/ TermCalls(t) >= 1

\* C15: while no SIGINT has been delivered and no launch has failed, no
\* terminate() is issued on any handle before all three children have exited,
\* whatever the status the others exited with, and the supervisor's exit
\* status is 0 whatever the children's statuses.
C15_ExitStatusIgnoresChildren ==
  (~Interrupted /\ launchError = None) =>
    /\ (\E t \in WorkloadSet : child[t] \notin Exited) =>
         \A u \in WorkloadSet : TermCalls(u) = 0
    /\ pc \notin InExceptClause
    /\ pc = "exited" => (exitStatus = 0 /\ pending = None)

\* C15 witness: no SIGINT; the first and the last child exited with a failure
\* status, the second with success; the waits all returned and the
\* supervisor exited with status 0
C15_Witness ==
  /\ pc = "exited"
  /\ exitStatus = 0
  /\ ~Interrupted
  /\ Len(log) = 3 * N
  /\ child["traces"] = "exit1"
  /\ child["metrics"] = "exit0"
  /\ child["logs"] = "exit1"
====
